---- MODULE Spec2Model ----
(***************************************************************************)
(* Model of the generic worker pool of gohpc, pkg/workerpool/pool.go:      *)
(* WorkerPoolExecutor.Run(ctx, inputs, fn).  One Run invocation is a set   *)
(* of goroutines (NumWorkers workers, the dispatcher that feeds the task   *)
(* channel, the goroutine that closes the result channel) next to the      *)
(* calling goroutine, which collects the results.  Every action below is   *)
(* one scheduling step of one goroutine; a select statement whose cases    *)
(* are ready together is a choice between the actions of its cases.        *)
(***************************************************************************)
EXTENDS Integers, Sequences, FiniteSets

(* ---- bounds of the model ---- *)
MaxLen == 3
MaxWorkers == 2

\* the error values of context.Context.Err()
Causes == {"Canceled", "DeadlineExceeded"}

\* the zero value of the result type R
ZeroR == 0

VARIABLES
    numCPU,         \* runtime.NumCPU()
    opts,           \* the n of the WithWorkers(n) options handed to New
    NumWorkers,     \* w.NumWorkers
    inputs,         \* the inputs slice
    ctxErr,         \* ctx.Err(): "nil" while ctx.Done() is open
    firedBeforeRun, \* history: ctx was done when Run was entered
    prev,           \* what the earlier Run on this executor returned, if any
    other,          \* the state of a second call running at the same time
    dispPc,         \* dispatcher goroutine: "feed" | "done"
    taskNext,       \* dispatcher's loop index i
    tasksClosed,    \* close(tasks) has run
    wpc,            \* worker goroutine position
    wtask,          \* worker's local t.idx (-1: none)
    wout,           \* worker's local out
    wg,             \* sync.WaitGroup counter
    results,        \* buffered contents of the results channel
    resultsClosed,  \* close(results) has run
    closerPc,       \* closer goroutine: "wait" | "done"
    outputs,        \* the outputs slice of the collector
    collected,      \* the collector's counter
    mainPc,         \* calling goroutine: "collect" | "returned"
    retOutputs,     \* the returned []R
    retErr,         \* the returned error
    doneAtReturn,   \* history: ctx was done when Run returned
    filled,         \* history: indices of outputs the collector has written
    reordered,      \* history: a result arrived after one of a larger index
    fnStarted,      \* history: indices for which fn has been invoked
    fnReturned,     \* history: indices whose fn invocation has returned
    jobs,           \* the job collection *jobs of the compute server
    hnd,            \* the POST /jobs handlers: position, newJob, slice read
    resp,           \* the status code of the latest response written
    served          \* the number of POST /jobs requests taken so far

vars == <<numCPU, opts, NumWorkers, inputs, ctxErr, firedBeforeRun, prev, other, dispPc, taskNext,
          tasksClosed, wpc, wtask, wout, wg, results, resultsClosed,
          closerPc, outputs, collected, mainPc, retOutputs, retErr,
          doneAtReturn, filled, reordered, fnStarted, fnReturned,
          jobs, hnd, resp, served>>

\* the work function handed to Run
fn(x) == x * x

\* ctx.Done() is closed
Done == ctxErr # "nil"

\* a start loop that runs once too often: i <= w.NumWorkers
WorkersOffByOne == 1..(NumWorkers + 1)

\* the worker goroutines started by the loop of Run
Workers == 1..NumWorkers

\* a results channel with one slot per worker: make(chan result, w.NumWorkers)
ResultsCapWorkers == NumWorkers

\* a results channel that was never made (var results chan result): it
\* buffers nothing and every send on it blocks
ResultsCapNil == Len(<<>>)

\* capacity of the results channel
ResultsCap == Len(inputs)

\* make([]R, n)
MakeSlice(n) == [i \in 1..n |-> ZeroR]

\* the inputs handed to Run: Run never looks into a value of T, so for every
\* length one ascending and one descending sequence of distinct values
Ascending(n) == [i \in 1..n |-> i]
Descending(n) == [i \in 1..n |-> n + 1 - i]
InputSeqs == UNION {{Ascending(n), Descending(n)} : n \in 0..MaxLen}

(* ---- the constructor ---- *)
\* defaultOpts()
defaultOpts(cpu) == [NumWorkers |-> cpu]

\* WithWorkers(num) applied to the options o
WithWorkers(num, o) == [o EXCEPT !.NumWorkers = num]

\* the loop of New over its options, from defaultOpts()
RECURSIVE ApplyOpts(_, _)
ApplyOpts(os, o) ==
    IF os = <<>> THEN o ELSE ApplyOpts(Tail(os), WithWorkers(Head(os), o))

\* New(opts...)
New(os, cpu) == ApplyOpts(os, defaultOpts(cpu))

\* the option lists handed to New: none, or one WithWorkers(n)
OptSeqs == {<<>>} \cup {<<n>> : n \in (-1)..MaxWorkers}

\* the state at the first select of Run, for an executor built by
\* New(WithWorkers(n)) with n in 1..MaxWorkers
RunInit ==
    /\ NumWorkers \in 1..MaxWorkers
    /\ numCPU = MaxWorkers
    /\ opts = <<NumWorkers>>
    /\ inputs \in InputSeqs
    /\ ctxErr \in {"nil"} \cup Causes
    /\ firedBeforeRun = (ctxErr # "nil")
    /\ prev = <<>>
    /\ dispPc = "feed"
    /\ taskNext = 0
    /\ tasksClosed = FALSE
    /\ wpc = [w \in Workers |-> "select"]
    /\ wtask = [w \in Workers |-> -1]
    /\ wout = [w \in Workers |-> ZeroR]
    /\ wg = NumWorkers
    /\ results = <<>>
    /\ resultsClosed = FALSE
    /\ closerPc = "wait"
    /\ outputs = MakeSlice(Len(inputs))
    /\ collected = 0
    /\ mainPc = "collect"
    /\ retOutputs = <<>>
    /\ retErr = "nil"
    /\ doneAtReturn = FALSE
    /\ filled = {}
    /\ reordered = FALSE
    /\ fnStarted = {}
    /\ fnReturned = {}

\* no compute server is serving /jobs
NoServer == jobs = <<>> /\ hnd = <<>> /\ resp = "" /\ served = 0

\* one call of Run: no second call runs at the same time
Init == RunInit /\ other = <<>> /\ NoServer

jobVars == <<jobs, hnd, resp, served>>
inputVars == <<numCPU, opts, NumWorkers, inputs, firedBeforeRun, prev, other,
               jobVars>>
dispVars == <<dispPc, taskNext, tasksClosed>>
workerVars == <<wpc, wtask, wout, wg, fnStarted, fnReturned>>
closerVars == <<resultsClosed, closerPc>>
mainVars == <<outputs, collected, mainPc, retOutputs, retErr, doneAtReturn,
              filled, reordered>>

(* ---- the cancellation token ---- *)
Cancel ==
    /\ ctxErr = "nil"
    /\ \E c \in Causes : ctxErr' = c
    /\ UNCHANGED <<inputVars, dispVars, workerVars, results, closerVars, mainVars>>

\* the worker exits: defer wg.Done()
Exit(w) ==
    /\ wpc' = [wpc EXCEPT ![w] = "done"]
    /\ wtask' = [wtask EXCEPT ![w] = -1]
    /\ wout' = [wout EXCEPT ![w] = ZeroR]
    /\ wg' = wg - 1

(* ---- dispatcher goroutine ---- *)
\* case <-ctx.Done(): return
DispatcherCancel ==
    /\ dispPc = "feed"
    /\ taskNext < Len(inputs)
    /\ Done
    /\ dispPc' = "done"
    /\ UNCHANGED <<inputVars, ctxErr, taskNext, tasksClosed, workerVars,
                   results, closerVars, mainVars>>

\* a loop that walks inputs from the back
DispatchIndexReversed == Len(inputs) - 1 - taskNext

\* the index i of the range loop over inputs
DispatchIndex == taskNext

\* a dispatcher that may send the task it has just sent once more
HandOffRetry(w) ==
    /\ dispPc = "feed"
    /\ taskNext < Len(inputs)
    /\ wpc[w] = "select"
    /\ wpc' = [wpc EXCEPT ![w] = "check"]
    /\ wtask' = [wtask EXCEPT ![w] = DispatchIndex]
    /\ taskNext' \in {taskNext, taskNext + 1}
    /\ UNCHANGED <<inputVars, ctxErr, dispPc, tasksClosed, wout, wg, fnStarted,
                   fnReturned, results, closerVars, mainVars>>

\* case tasks <- task{i, input} of the dispatcher meets case t, ok := <-tasks
\* of worker w: the channel is unbuffered
HandOff(w) ==
    /\ dispPc = "feed"
    /\ taskNext < Len(inputs)
    /\ wpc[w] = "select"
    /\ wpc' = [wpc EXCEPT ![w] = "check"]
    /\ wtask' = [wtask EXCEPT ![w] = DispatchIndex]
    /\ taskNext' = taskNext + 1
    /\ UNCHANGED <<inputVars, ctxErr, dispPc, tasksClosed, wout, wg, fnStarted,
                   fnReturned, results, closerVars, mainVars>>

\* a dispatcher that returns after the last hand-off without close(tasks)
DispatcherNoClose ==
    /\ dispPc = "feed"
    /\ taskNext = Len(inputs)
    /\ dispPc' = "done"
    /\ UNCHANGED <<inputVars, ctxErr, taskNext, tasksClosed, workerVars,
                   results, closerVars, mainVars>>

\* the range loop is over: close(tasks)
DispatcherClose ==
    /\ dispPc = "feed"
    /\ taskNext = Len(inputs)
    /\ tasksClosed' = TRUE
    /\ dispPc' = "done"
    /\ UNCHANGED <<inputVars, ctxErr, taskNext, workerVars, results,
                   closerVars, mainVars>>

(* ---- worker goroutines ---- *)
\* 1) case <-ctx.Done(): return
WorkerCancel(w) ==
    /\ wpc[w] = "select"
    /\ Done
    /\ Exit(w)
    /\ UNCHANGED <<inputVars, ctxErr, dispVars, fnStarted, fnReturned, results,
                   closerVars, mainVars>>

\* 2) t, ok := <-tasks with ok = false
WorkerTasksClosed(w) ==
    /\ wpc[w] = "select"
    /\ tasksClosed
    /\ Exit(w)
    /\ UNCHANGED <<inputVars, ctxErr, dispVars, fnStarted, fnReturned, results,
                   closerVars, mainVars>>

\* a worker loop without the second check of ctx.Done(): fn is invoked on
\* every task pulled
WorkerCheckNoSecond(w) ==
    /\ wpc[w] = "check"
    /\ wpc' = [wpc EXCEPT ![w] = "work"]
    /\ fnStarted' = fnStarted \cup {wtask[w]}
    /\ UNCHANGED <<wtask, wout, wg>>
    /\ UNCHANGED <<inputVars, ctxErr, dispVars, fnReturned, results,
                   closerVars, mainVars>>

\* 3) the second check of ctx.Done(), default: 4) fn is invoked
WorkerCheck(w) ==
    /\ wpc[w] = "check"
    /\ IF Done
          THEN /\ Exit(w)
               /\ UNCHANGED <<fnStarted>>
          ELSE /\ wpc' = [wpc EXCEPT ![w] = "work"]
               /\ fnStarted' = fnStarted \cup {wtask[w]}
               /\ UNCHANGED <<wtask, wout, wg>>
    /\ UNCHANGED <<inputVars, ctxErr, dispVars, fnReturned, results,
                   closerVars, mainVars>>

\* 4) out := fn(ctx, t.input) returns
WorkerFnReturn(w) ==
    /\ wpc[w] = "work"
    /\ wout' = [wout EXCEPT ![w] = fn(inputs[wtask[w] + 1])]
    /\ fnReturned' = fnReturned \cup {wtask[w]}
    /\ wpc' = [wpc EXCEPT ![w] = "send"]
    /\ UNCHANGED <<inputVars, ctxErr, dispVars, wtask, wg, fnStarted, results,
                   closerVars, mainVars>>

\* 5) case results <- result{t.idx, out}
WorkerSend(w) ==
    /\ wpc[w] = "send"
    /\ Len(results) < ResultsCap
    /\ results' = Append(results, [idx |-> wtask[w], output |-> wout[w]])
    /\ wpc' = [wpc EXCEPT ![w] = "select"]
    /\ wtask' = [wtask EXCEPT ![w] = -1]
    /\ wout' = [wout EXCEPT ![w] = ZeroR]
    /\ UNCHANGED <<inputVars, ctxErr, dispVars, wg, fnStarted, fnReturned,
                   closerVars, mainVars>>

\* 5) case <-ctx.Done(): return
WorkerSendCancel(w) ==
    /\ wpc[w] = "send"
    /\ Done
    /\ Exit(w)
    /\ UNCHANGED <<inputVars, ctxErr, dispVars, fnStarted, fnReturned, results,
                   closerVars, mainVars>>

(* ---- closer goroutine ---- *)
\* a closer that does not wait for the workers: close(results) at once
CloserNoWait ==
    /\ closerPc = "wait"
    /\ resultsClosed' = TRUE
    /\ closerPc' = "done"
    /\ UNCHANGED <<inputVars, ctxErr, dispVars, workerVars, results, mainVars>>

\* wg.Wait(); close(results)
Closer ==
    /\ closerPc = "wait"
    /\ wg = 0
    /\ resultsClosed' = TRUE
    /\ closerPc' = "done"
    /\ UNCHANGED <<inputVars, ctxErr, dispVars, workerVars, results, mainVars>>

(* ---- collector: the calling goroutine ---- *)
\* the value returned next to ctx.Err()
CancelledOutputs == <<>>

\* the error returned when results is found closed
ClosedErr == "nil"

\* the loop condition with <= for <
MoreToCollectOffByOne == collected <= Len(inputs)

\* the loop condition collected < len(inputs)
MoreToCollect == collected < Len(inputs)

\* results stored in arrival order: outputs[collected] = r.output
StoreByArrival(r) == [outputs EXCEPT ![collected + 1] = r.output]

\* outputs[r.idx] = r.output
Store(r) == [outputs EXCEPT ![r.idx + 1] = r.output]

\* an error made up by Run instead of the one of the context
CancelErrFixed == "Canceled"

\* the error returned on cancellation: ctx.Err()
CancelErr == ctxErr

\* case <-ctx.Done(): return nil, ctx.Err()
CollectorCancel ==
    /\ mainPc = "collect"
    /\ MoreToCollect
    /\ Done
    /\ retOutputs' = CancelledOutputs
    /\ retErr' = CancelErr
    /\ mainPc' = "returned"
    /\ doneAtReturn' = Done
    /\ UNCHANGED <<inputVars, ctxErr, dispVars, workerVars, results,
                   closerVars, outputs, collected, filled, reordered>>

\* case r, ok := <-results with ok = true
CollectorReceive ==
    /\ mainPc = "collect"
    /\ MoreToCollect
    /\ results # <<>>
    /\ outputs' = Store(Head(results))
    /\ filled' = filled \cup {Head(results).idx}
    /\ reordered' = (reordered \/ \E j \in filled : j > Head(results).idx)
    /\ collected' = collected + 1
    /\ results' = Tail(results)
    /\ UNCHANGED <<inputVars, ctxErr, dispVars, workerVars, closerVars,
                   mainPc, retOutputs, retErr, doneAtReturn>>

\* case r, ok := <-results with ok = false: return outputs, nil
CollectorClosed ==
    /\ mainPc = "collect"
    /\ MoreToCollect
    /\ results = <<>>
    /\ resultsClosed
    /\ retOutputs' = outputs
    /\ retErr' = ClosedErr
    /\ mainPc' = "returned"
    /\ doneAtReturn' = Done
    /\ UNCHANGED <<inputVars, ctxErr, dispVars, workerVars, results,
                   closerVars, outputs, collected, filled, reordered>>

\* the loop condition collected < len(inputs) fails: return outputs, nil
CollectorDone ==
    /\ mainPc = "collect"
    /\ ~MoreToCollect
    /\ retOutputs' = outputs
    /\ retErr' = "nil"
    /\ mainPc' = "returned"
    /\ doneAtReturn' = Done
    /\ UNCHANGED <<inputVars, ctxErr, dispVars, workerVars, results,
                   closerVars, outputs, collected, filled, reordered>>

(* ---- a second call of Run on the same executor ---- *)
\* a results channel kept on the executor and used again by the next call
ReusedResults == [buf |-> results, closed |-> resultsClosed]

\* results := make(chan result, len(inputs)), made by every call
NewResults == [buf |-> <<>>, closed |-> FALSE]

\* Run has returned without cancellation and the caller calls it again with
\* the same ctx, inputs and fn.  All the state of a call is local to it
\* (tasks, results, wg, outputs, collected): the goroutines the first call
\* left behind hold the first call's channels only and are left out.
RunAgain ==
    /\ mainPc = "returned"
    /\ prev = <<>>
    /\ ~Done
    /\ prev' = <<[outputs |-> retOutputs, err |-> retErr]>>
    /\ firedBeforeRun' = Done
    /\ dispPc' = "feed"
    /\ taskNext' = 0
    /\ tasksClosed' = FALSE
    /\ wpc' = [w \in Workers |-> "select"]
    /\ wtask' = [w \in Workers |-> -1]
    /\ wout' = [w \in Workers |-> ZeroR]
    /\ wg' = NumWorkers
    /\ results' = NewResults.buf
    /\ resultsClosed' = NewResults.closed
    /\ closerPc' = "wait"
    /\ outputs' = MakeSlice(Len(inputs))
    /\ collected' = 0
    /\ mainPc' = "collect"
    /\ retOutputs' = <<>>
    /\ retErr' = "nil"
    /\ doneAtReturn' = FALSE
    /\ filled' = {}
    /\ reordered' = FALSE
    /\ fnStarted' = {}
    /\ fnReturned' = {}
    /\ UNCHANGED <<numCPU, opts, NumWorkers, inputs, ctxErr, other, jobVars>>

(* ---- two calls of Run on one executor at the same time ---- *)
\* the state of a call of Run: its parameters ctx and inputs, its locals and
\* the positions of its goroutines
ThisCall ==
    [inputs |-> inputs,
     ctxErr |-> ctxErr,
     firedBeforeRun |-> firedBeforeRun,
     dispPc |-> dispPc,
     taskNext |-> taskNext,
     tasksClosed |-> tasksClosed,
     wpc |-> wpc,
     wtask |-> wtask,
     wout |-> wout,
     wg |-> wg,
     outputs |-> outputs,
     collected |-> collected,
     mainPc |-> mainPc,
     retOutputs |-> retOutputs,
     retErr |-> retErr,
     doneAtReturn |-> doneAtReturn,
     filled |-> filled,
     reordered |-> reordered,
     fnStarted |-> fnStarted,
     fnReturned |-> fnReturned,
     closerPc |-> closerPc,
     results |-> results,
     resultsClosed |-> resultsClosed]

\* a results channel kept on the executor: both calls use the same one
SharedResults == [buf |-> results, closed |-> resultsClosed]

\* the results channel of the other call: results is a local of Run
OtherResults == [buf |-> other.results, closed |-> other.resultsClosed]

\* the scheduler turns from the goroutines of one call to those of the
\* other: the actions of Run then act on that call's state
Switch ==
    /\ other # <<>>
    /\ other' = ThisCall
    /\ inputs' = other.inputs
    /\ ctxErr' = other.ctxErr
    /\ firedBeforeRun' = other.firedBeforeRun
    /\ dispPc' = other.dispPc
    /\ taskNext' = other.taskNext
    /\ tasksClosed' = other.tasksClosed
    /\ wpc' = other.wpc
    /\ wtask' = other.wtask
    /\ wout' = other.wout
    /\ wg' = other.wg
    /\ outputs' = other.outputs
    /\ collected' = other.collected
    /\ mainPc' = other.mainPc
    /\ retOutputs' = other.retOutputs
    /\ retErr' = other.retErr
    /\ doneAtReturn' = other.doneAtReturn
    /\ filled' = other.filled
    /\ reordered' = other.reordered
    /\ fnStarted' = other.fnStarted
    /\ fnReturned' = other.fnReturned
    /\ closerPc' = other.closerPc
    /\ results' = OtherResults.buf
    /\ resultsClosed' = OtherResults.closed
    /\ UNCHANGED <<numCPU, opts, NumWorkers, prev, jobVars>>

Dispatcher == DispatcherCancel \/ DispatcherClose

Worker(w) ==
    \/ HandOff(w)
    \/ WorkerCancel(w)
    \/ WorkerTasksClosed(w)
    \/ WorkerCheck(w)
    \/ WorkerFnReturn(w)
    \/ WorkerSend(w)
    \/ WorkerSendCancel(w)

Collector ==
    \/ CollectorCancel
    \/ CollectorReceive
    \/ CollectorClosed
    \/ CollectorDone

Next ==
    \/ Cancel
    \/ DispatcherCancel
    \/ DispatcherClose
    \/ \E w \in Workers : HandOff(w)
    \/ \E w \in Workers : WorkerCancel(w)
    \/ \E w \in Workers : WorkerTasksClosed(w)
    \/ \E w \in Workers : WorkerCheck(w)
    \/ \E w \in Workers : WorkerFnReturn(w)
    \/ \E w \in Workers : WorkerSend(w)
    \/ \E w \in Workers : WorkerSendCancel(w)
    \/ Closer
    \/ CollectorCancel
    \/ CollectorReceive
    \/ CollectorClosed
    \/ CollectorDone

Spec == Init /\ [][Next]_vars

\* Run on an executor built by New from any option list.  wg.Add panics on
\* a negative count, before any goroutine is started.
NewInit ==
    /\ numCPU \in 1..MaxWorkers
    /\ opts \in OptSeqs
    /\ NumWorkers = New(opts, numCPU).NumWorkers
    /\ inputs \in {Descending(n) : n \in 0..MaxLen}
    /\ ctxErr \in {"nil"} \cup Causes
    /\ firedBeforeRun = (ctxErr # "nil")
    /\ prev = <<>>
    /\ other = <<>>
    /\ NoServer
    /\ dispPc = IF NumWorkers < 0 THEN "off" ELSE "feed"
    /\ taskNext = 0
    /\ tasksClosed = FALSE
    /\ wpc = [w \in Workers |-> "select"]
    /\ wtask = [w \in Workers |-> -1]
    /\ wout = [w \in Workers |-> ZeroR]
    /\ wg = NumWorkers
    /\ results = <<>>
    /\ resultsClosed = FALSE
    /\ closerPc = IF NumWorkers < 0 THEN "off" ELSE "wait"
    /\ outputs = MakeSlice(Len(inputs))
    /\ collected = 0
    /\ mainPc = IF NumWorkers < 0 THEN "panic" ELSE "collect"
    /\ retOutputs = <<>>
    /\ retErr = "nil"
    /\ doneAtReturn = FALSE
    /\ filled = {}
    /\ reordered = FALSE
    /\ fnStarted = {}
    /\ fnReturned = {}

NewSpec == NewInit /\ [][Next]_vars

\* the state of a call at its first select
FreshCall(inp, n) ==
    [inputs |-> inp, ctxErr |-> "nil", firedBeforeRun |-> FALSE,
     dispPc |-> "feed", taskNext |-> 0, tasksClosed |-> FALSE,
     wpc |-> [w \in 1..n |-> "select"], wtask |-> [w \in 1..n |-> -1],
     wout |-> [w \in 1..n |-> ZeroR], wg |-> n,
     outputs |-> MakeSlice(Len(inp)), collected |-> 0, mainPc |-> "collect",
     retOutputs |-> <<>>, retErr |-> "nil", doneAtReturn |-> FALSE,
     filled |-> {}, reordered |-> FALSE, fnStarted |-> {}, fnReturned |-> {},
     closerPc |-> "wait", results |-> <<>>, resultsClosed |-> FALSE]

\* the inputs of the two calls: no value of one is a value of the other
ConcInputs == {<<>>, <<1>>, <<2, 1>>}
OtherInputs == {<<>>, <<3>>}

\* two calls of Run on one executor of one or two workers, each call with
\* its own ctx and inputs
ConcInit ==
    /\ RunInit
    /\ NumWorkers \in 1..2
    /\ inputs \in ConcInputs
    /\ ctxErr = "nil"
    /\ other \in {FreshCall(inp, NumWorkers) : inp \in OtherInputs}
    /\ NoServer

ConcNext == Next \/ Switch

ConcSpec == ConcInit /\ [][ConcNext]_vars

\* two calls of Run in sequence on one executor
SeqNext == Next \/ RunAgain

SeqSpec == Init /\ [][SeqNext]_vars

\* whether Run returns does not depend on the values of inputs: the fair
\* behaviours are explored for one sequence of every length
FairInit == Init /\ inputs = Descending(Len(inputs))

\* the Go scheduler runs every goroutine that can take a step
FairSpec ==
    /\ FairInit
    /\ [][Next]_vars
    /\ WF_vars(Dispatcher)
    /\ \A w \in 1..MaxWorkers : WF_vars(w \in DOMAIN wpc /\ Worker(w))
    /\ WF_vars(Closer)
    /\ WF_vars(Collector)

(***************************************************************************)
(* Properties of Run                                                       *)
(***************************************************************************)

\* what Run is to return on success: fn applied to every input, in order
Expected == [i \in 1..Len(inputs) |-> fn(inputs[i])]

Returned == mainPc = "returned"

\* C1 - order preservation: when the token has not fired, Run returns a
\* nil error and output[i] = fn(inputs[i]) for every i, for every worker
\* count and every interleaving of dispatcher, workers and collector.
OrderPreservation ==
    (Returned /\ ~Done) => (retErr = "nil" /\ retOutputs = Expected)

\* a run of two workers that returned without cancellation after the
\* results had arrived out of input order
OrderPreservationWitness ==
    /\ Returned /\ ~Done
    /\ NumWorkers = 2 /\ Len(inputs) > NumWorkers
    /\ reordered
    /\ retOutputs = Expected

\* C2 - success implies completeness: a nil error is returned only with
\* every index collected and output[i] = fn(inputs[i]), whenever the token
\* fires.
SuccessImpliesComplete ==
    (Returned /\ retErr = "nil") =>
        (collected = Len(inputs) /\ retOutputs = Expected)

\* C3 - in every terminal state the returned sequence has the length of
\* inputs.
ReturnedLength == Returned => Len(retOutputs) = Len(inputs)

\* the output buffer as it has to be after the indices in filled were
\* collected
FilledSoFar ==
    [i \in 1..Len(inputs) |-> IF (i - 1) \in filled THEN fn(inputs[i]) ELSE ZeroR]

\* C4 - the cancelled outcome returns the buffer as filled so far next to
\* the error: fn(inputs[i]) at the collected indices, the zero value of R
\* at the others.
CancelledReturnsPartial ==
    (Returned /\ retErr \in Causes) => retOutputs = FilledSoFar

\* C5 - a token that had fired before Run started and a non-empty inputs
\* make Run return a cancellation error, never nil, with the zero value in
\* every slot that was not collected.
PreCancelledReturnsError ==
    (Returned /\ firedBeforeRun /\ Len(inputs) > 0) =>
        /\ retErr \in Causes
        /\ \A i \in 1..Len(retOutputs) :
               (i - 1) \notin filled => retOutputs[i] = ZeroR

\* C6 - termination: under fair scheduling every Run returns, whether the
\* token never fires or fires at any moment (also when it fires while
\* inputs are left undispatched).
Termination == <>Returned

\* Run has returned on cancellation while inputs were never dispatched
TerminationWitness ==
    /\ Returned /\ retErr \in Causes
    /\ taskNext < Len(inputs)
    /\ dispPc = "done"

\* tasks handed to a worker whose fn invocation has not returned
InFlight == taskNext - Cardinality(fnReturned)

\* C7 - bounded concurrency: exactly NumWorkers workers are started, at
\* most NumWorkers handed-off tasks are waiting for their fn to return, and
\* a task leaves the dispatcher only into the hands of a worker that is
\* ready to receive it.
BoundedConcurrency ==
    /\ [](Cardinality(DOMAIN wpc) = NumWorkers /\ InFlight <= NumWorkers)
    /\ [][taskNext' # taskNext =>
            \E w \in DOMAIN wpc :
                /\ wpc[w] = "select"
                /\ wpc'[w] = "check"
                /\ wtask'[w] = taskNext]_vars

\* every worker holds a task whose fn has been invoked and has not returned
BoundedConcurrencyWitness ==
    /\ NumWorkers >= 2
    /\ \A w \in DOMAIN wpc : wpc[w] = "work"
    /\ InFlight = NumWorkers
    /\ taskNext < Len(inputs)

\* C8 - worker teardown: when Run returns, every worker it started has
\* terminated.
TeardownBeforeReturn ==
    Returned => \A w \in DOMAIN wpc : wpc[w] = "done"

\* C9 - empty input: Run returns an empty sequence and a nil error, the
\* return waits for no worker, and fn is never invoked.
EmptyInput ==
    Len(inputs) = 0 =>
        /\ fnStarted = {}
        /\ mainPc = "collect" => ENABLED CollectorDone
        /\ Returned => (retOutputs = <<>> /\ retErr = "nil")

\* Run has returned on an empty inputs while no worker has terminated and
\* the token has fired
EmptyInputWitness ==
    /\ Len(inputs) = 0
    /\ Returned
    /\ Done
    /\ \A w \in DOMAIN wpc : wpc[w] = "select"

Completed == retErr = "nil" /\ retOutputs = Expected
Cancelled == retErr \in Causes
Incomplete == retErr = "IncompleteResults"

\* C11 - every Run ends in exactly one of the outcomes Completed (all
\* results, nil error), Cancelled (cancellation error) and Incomplete
\* (incomplete-results error), told apart by the returned pair.
OneTerminalOutcome ==
    Returned =>
        /\ Completed \/ Cancelled \/ Incomplete
        /\ ~(Completed /\ Cancelled) /\ ~(Completed /\ Incomplete)
        /\ ~(Cancelled /\ Incomplete)
        /\ Completed <=> collected = Len(inputs)

\* C12 - once all len(inputs) results are collected Run returns the buffer
\* and nil: a token that fires after the last result was collected and
\* before the return does not make the outcome an error.
CompletedStaysCompleted ==
    /\ (Returned /\ collected = Len(inputs)) =>
           (retErr = "nil" /\ retOutputs = Expected)
    /\ (mainPc = "collect" /\ collected = Len(inputs)) =>
           (ENABLED CollectorDone /\ ~ENABLED CollectorCancel)

\* the token had fired when Run returned all results of a non-empty inputs
\* with a nil error
CompletedStaysCompletedWitness ==
    /\ Returned /\ doneAtReturn /\ ~firedBeforeRun
    /\ Len(inputs) > 0
    /\ collected = Len(inputs)
    /\ retErr = "nil" /\ retOutputs = Expected

TasksClosedOnce ==
    /\ [](dispPc = "done" => tasksClosed)
    /\ [][tasksClosed => tasksClosed' /\ dispPc' = dispPc]_vars

\* C19 - once the token has fired the dispatcher hands off no further task.
NoHandOffAfterCancel == [][Done => taskNext' = taskNext]_vars

\* C20 - tasks are handed off in increasing index order from 0, each index
\* at most once: the next task handed off is the one of index taskNext, and
\* the indices held or worked on are distinct members of 0..taskNext-1.
DispatchOrder ==
    /\ [](/\ \A w \in DOMAIN wpc : wtask[w] < taskNext
          /\ \A v, w \in DOMAIN wpc :
                 (v # w /\ wtask[v] # -1) => wtask[v] # wtask[w]
          /\ fnStarted \subseteq 0..(taskNext - 1)
          /\ \A w \in DOMAIN wpc : wtask[w] # -1 => wtask[w] \notin filled)
    /\ [][\A w \in DOMAIN wpc :
              (wpc[w] = "select" /\ wpc'[w] = "check") =>
                  (wtask'[w] = taskNext /\ taskNext' = taskNext + 1)]_vars

\* every input has been handed off and two workers hold distinct tasks
DispatchOrderWitness ==
    /\ taskNext = Len(inputs)
    /\ taskNext > 2
    /\ \E v, w \in DOMAIN wpc : v # w /\ wtask[v] # -1 /\ wtask[w] # -1

\* C14 - determinism across runs: a second Run on the same executor with
\* the same inputs and fn, not cancelled, returns what the first returned,
\* however the two executions are scheduled.
SameOutputsTwice ==
    (Len(prev) = 1 /\ Returned /\ ~doneAtReturn) =>
        (retOutputs = prev[1].outputs /\ retErr = prev[1].err)

\* the second Run returned without cancellation after its results had
\* arrived out of input order
SameOutputsTwiceWitness ==
    /\ Len(prev) = 1
    /\ Returned /\ ~doneAtReturn
    /\ reordered
    /\ retOutputs = Expected

\* the worker count the executor is to have for an option list
ValidWorkers ==
    IF opts = <<>> \/ opts[Len(opts)] <= 0 THEN numCPU ELSE opts[Len(opts)]

\* C15 - configuration validity: the executor has NumWorkers > 0: the
\* number of logical processors without an option or with WithWorkers(n),
\* n <= 0, and n with WithWorkers(n), n > 0.
ConfigValid == NumWorkers > 0 /\ NumWorkers = ValidWorkers

\* C16 - reentrancy: two calls of Run running at the same time on one
\* executor use their own channels: the buffer and the results channel of a
\* call hold results of its own inputs only, and a call that returns
\* without cancellation returns fn of its own inputs and nil, as when run
\* alone.  (Stated of the call the actions act on: Switch makes it either.)
Reentrant ==
    /\ \A i \in 1..Len(outputs) : outputs[i] \in {ZeroR, fn(inputs[i])}
    /\ \A k \in 1..Len(results) :
           results[k].output = fn(inputs[results[k].idx + 1])
    /\ Len(results) <= Len(inputs)
    /\ (Returned /\ ~doneAtReturn) => (retErr = "nil" /\ retOutputs = Expected)

\* one call has returned all its results while the other call is in the
\* middle of collecting its own
ReentrantWitness ==
    /\ other # <<>>
    /\ Returned /\ Len(inputs) > 0 /\ retOutputs = Expected
    /\ other.mainPc = "collect"
    /\ other.collected > 0
    /\ other.collected < Len(other.inputs)

(* ---- the job registry of the compute server: src/pkg/serve/job.go ---- *)
\* the number of requests net/http serves at a time, each in its goroutine
MaxHandlers == 2

\* the number of POST /jobs requests taken
MaxRequests == 3

\* the largest id a request carries
MaxJobID == 2

Handlers == 1..MaxHandlers

StatusPending == "pending"

\* the Resources of the request bodies
ResourceVals ==
    {[Cpu |-> "", Memory |-> "1Gi"], [Cpu |-> "1", Memory |-> ""],
     [Cpu |-> "1", Memory |-> "1Gi"]}

\* Job{}; the Input and Output maps of a Job are left out: no handler
\* reads them
ZeroJob == [ID |-> 0, Status |-> "", Resources |-> [Cpu |-> "", Memory |-> ""]]

\* a NewJob that checks nothing
NewJobNoCheck(id, res) ==
    [job |-> [ID |-> id, Status |-> StatusPending, Resources |-> res],
     err |-> "nil"]

NewJob(id, res) ==
    IF id <= 0
    THEN [job |-> ZeroJob, err |-> "id must be > 0"]
    ELSE IF res.Cpu = "" \/ res.Memory = ""
    THEN [job |-> ZeroJob,
          err |-> "resources.cpu and resources.memory are required"]
    ELSE [job |-> [ID |-> id, Status |-> StatusPending, Resources |-> res],
          err |-> "nil"]

\* the loop of jobExists over the slice it was handed
jobExists(newJob, js) == \E i \in 1..Len(js) : newJob.ID = js[i].ID

\* the bodies of the POST /jobs requests: one the decoder rejects, and the
\* jobRequest values
PostBodies ==
    {[decodes |-> FALSE, ID |-> 0, Resources |-> [Cpu |-> "", Memory |-> ""]]}
    \cup [decodes : {TRUE}, ID : 0..MaxJobID, Resources : ResourceVals]

\* the {id} of GET /jobs/{id}: one strconv.Atoi rejects, and the numbers
IdParams == {[numeric |-> FALSE, n |-> 0]}
            \cup [numeric : {TRUE}, n : 0..MaxJobID]

IdleHandler == [pc |-> "idle", newJob |-> ZeroJob, snap |-> <<>>]

\* the variables of the worker pool
poolVars == <<numCPU, opts, NumWorkers, inputs, ctxErr, firedBeforeRun, prev,
              other, dispVars, workerVars, results, closerVars, mainVars>>

\* GET /jobs
GetJobs ==
    /\ hnd # <<>>
    /\ resp' = "StatusOK"
    /\ UNCHANGED <<jobs, hnd, served, poolVars>>

\* GET /jobs/{id}
GetJob(idParam) ==
    /\ hnd # <<>>
    /\ resp' = IF ~idParam.numeric THEN "StatusBadRequest"
               ELSE IF \E i \in 1..Len(jobs) : jobs[i].ID = idParam.n
               THEN "StatusOK"
               ELSE "StatusNotFound"
    /\ UNCHANGED <<jobs, hnd, served, poolVars>>

\* POST /jobs up to the call of jobExists: Decode and NewJob
PostDecode(h, body) ==
    /\ hnd # <<>>
    /\ hnd[h].pc = "idle"
    /\ served < MaxRequests
    /\ served' = served + 1
    /\ IF ~body.decodes \/ NewJob(body.ID, body.Resources).err # "nil"
       THEN /\ resp' = "StatusBadRequest"
            /\ UNCHANGED hnd
       ELSE /\ hnd' = [hnd EXCEPT ![h] =
                          [pc |-> "exists",
                           newJob |-> NewJob(body.ID, body.Resources).job,
                           snap |-> <<>>]]
            /\ UNCHANGED resp
    /\ UNCHANGED <<jobs, poolVars>>

\* if jobExists(w, newJob, *jobs) { return }
PostJobExists(h) ==
    /\ hnd # <<>>
    /\ hnd[h].pc = "exists"
    /\ IF jobExists(hnd[h].newJob, jobs)
       THEN /\ resp' = "StatusConflict"
            /\ hnd' = [hnd EXCEPT ![h] = IdleHandler]
       ELSE /\ hnd' = [hnd EXCEPT ![h].pc = "append"]
            /\ UNCHANGED resp
    /\ UNCHANGED <<jobs, served, poolVars>>

\* *jobs = append(*jobs, newJob), the read of *jobs: no lock is held, and
\* the other handlers run between this read and the store
PostAppendRead(h) ==
    /\ hnd # <<>>
    /\ hnd[h].pc = "append"
    /\ hnd' = [hnd EXCEPT ![h].pc = "store", ![h].snap = jobs]
    /\ UNCHANGED <<jobs, resp, served, poolVars>>

\* *jobs = append(*jobs, newJob), the store, and the response
PostAppendStore(h) ==
    /\ hnd # <<>>
    /\ hnd[h].pc = "store"
    /\ jobs' = Append(hnd[h].snap, hnd[h].newJob)
    /\ resp' = "StatusOK"
    /\ hnd' = [hnd EXCEPT ![h] = IdleHandler]
    /\ UNCHANGED <<served, poolVars>>

\* ComputeServer New: Jobs: make([]Job, 0); the worker pool runs nothing
JobInit ==
    /\ RunInit
    /\ NumWorkers = 1
    /\ inputs = <<>>
    /\ ctxErr = "nil"
    /\ other = <<>>
    /\ jobs = <<>>
    /\ hnd = [h \in Handlers |-> IdleHandler]
    /\ resp = ""
    /\ served = 0

JobNext ==
    \/ GetJobs
    \/ \E idParam \in IdParams : GetJob(idParam)
    \/ \E h \in Handlers : \E body \in PostBodies : PostDecode(h, body)
    \/ \E h \in Handlers : PostJobExists(h)
    \/ \E h \in Handlers : PostAppendRead(h)
    \/ \E h \in Handlers : PostAppendStore(h)

JobSpec == JobInit /\ [][JobNext]_vars

\* C17 - job registry uniqueness: under every interleaving of the create
\* requests the job collection never holds two jobs with the same ID
JobIDsUnique ==
    \A i, j \in 1..Len(jobs) : i # j => jobs[i].ID # jobs[j].ID

\* the indices whose fn invocation is running
Running == fnStarted \ fnReturned

\* C21 - no new work after cancellation: no fn invocation begins in a state
\* in which the token has fired (so none begins for a task that was pulled
\* after the token fired), and once the token has fired the invocations
\* still running are among those that were running when it fired.
NoNewWorkAfterCancel ==
    /\ [](firedBeforeRun => fnStarted = {})
    /\ [][Done => (fnStarted' = fnStarted /\ Running' \subseteq Running)]_vars

\* the token fired while an invocation was running and a task was pulled
\* after that: the worker that pulled it left without invoking fn
NoNewWorkAfterCancelWitness ==
    /\ Done /\ ~firedBeforeRun
    /\ Running # {}
    /\ \E w \in DOMAIN wpc : wpc[w] = "done"
    /\ taskNext > Cardinality(fnStarted)
    /\ \A w \in DOMAIN wpc : wtask[w] \in Running \cup {-1}

\* C22 - result discard on cancellation: once the token has fired no
\* worker publishes a result: no (index, output) pair enters the results
\* channel in a state in which the token has fired.
NoPublishAfterCancel == [][Done => Len(results') <= Len(results)]_vars

\* C23 - shutdown of the results channel: it is closed at most once per
\* Run, by the closer and only after every worker has terminated, and no
\* worker sends on it once it is closed, under every interleaving and
\* cancellation time.
ResultsClosedOnce ==
    /\ [](resultsClosed =>
              (closerPc = "done" /\ wg = 0
               /\ \A w \in DOMAIN wpc : wpc[w] = "done"))
    /\ [][/\ resultsClosed' # resultsClosed =>
              (~resultsClosed /\ closerPc = "wait" /\ closerPc' = "done")
          /\ closerPc = "done" => closerPc' = "done"
          /\ resultsClosed => Len(results') <= Len(results)]_vars

\* the channel was closed with results left in it, after two workers
\* terminated on a token that fired during the run
ResultsClosedOnceWitness ==
    /\ resultsClosed
    /\ NumWorkers = 2
    /\ Done /\ ~firedBeforeRun
    /\ results # <<>>
    /\ taskNext < Len(inputs)

\* C24 - workers never block on publishing: the results channel never
\* holds more than len(inputs) results, and the send of a worker that has a
\* result to publish is enabled in every reachable state, also after the
\* collector has returned.
SendNeverBlocks ==
    /\ Len(results) <= Len(inputs)
    /\ Len(results) + Cardinality({w \in DOMAIN wpc : wpc[w] = "send"})
           <= Len(inputs)
    /\ \A w \in DOMAIN wpc : wpc[w] = "send" => ENABLED WorkerSend(w)

\* the collector has returned, a result is left in the channel and a worker
\* is about to publish another one
SendNeverBlocksWitness ==
    /\ Returned
    /\ results # <<>>
    /\ \E w \in DOMAIN wpc : wpc[w] = "send"

\* C25 - single-writer collection: the output buffer changes only in a
\* receive step of the collector, which writes one index not written
\* before; the received count is the number of distinct indices written; a
\* written slot holds fn(inputs[i]) and every other slot the zero value.
SingleWriter ==
    /\ [](collected = Cardinality(filled) /\ outputs = FilledSoFar)
    /\ [][outputs' # outputs =>
              /\ mainPc = "collect" /\ results # <<>>
              /\ Head(results).idx \notin filled
              /\ filled' = filled \cup {Head(results).idx}
              /\ collected' = collected + 1
              /\ \A i \in 1..Len(outputs) :
                     i # Head(results).idx + 1 => outputs'[i] = outputs[i]]_vars

\* the collector has written a later index and not yet the first one
SingleWriterWitness ==
    /\ mainPc = "collect"
    /\ filled # {}
    /\ 0 \notin filled
    /\ Len(inputs) > 2

\* C26 - no retry: within one Run fn is invoked at most once for an input
\* index, exactly once for every index when the token never fires, and a
\* handed-off task is consumed by exactly one worker.
NoRetry ==
    /\ [](/\ \A v, w \in DOMAIN wpc :
                 (v # w /\ wtask[v] # -1) => wtask[v] # wtask[w]
          /\ (Returned /\ ~Done) =>
                 (fnStarted = 0..(Len(inputs) - 1) /\ fnReturned = fnStarted))
    /\ [][/\ \A w \in DOMAIN wpc :
                 (wpc[w] = "check" /\ wpc'[w] = "work") =>
                     (wtask[w] \notin fnStarted /\ wtask[w] \notin filled
                      /\ \A k \in 1..Len(results) : results[k].idx # wtask[w])
          /\ taskNext' # taskNext =>
                 Cardinality({w \in DOMAIN wpc : wtask'[w] # wtask[w]}) = 1]_vars

\* without cancellation two workers have invoked fn once for each of three
\* inputs and Run has returned
NoRetryWitness ==
    /\ Returned /\ ~Done
    /\ NumWorkers = 2 /\ Len(inputs) = 3
    /\ fnStarted = {0, 1, 2} /\ fnReturned = {0, 1, 2}

\* C27 - absent cancellation and with at least one worker the collector
\* never finds the results channel closed before it has received all
\* len(inputs) results: the closed branch of its select is not enabled
\* while the token has not fired, and a Run that returns before the token
\* fires has received every result.
NoIncompleteWithoutCancel ==
    /\ (~Done /\ NumWorkers >= 1) => ~ENABLED CollectorClosed
    /\ (~Done /\ NumWorkers >= 1 /\ resultsClosed) =>
           collected + Len(results) = Len(inputs)
    /\ (Returned /\ ~doneAtReturn /\ NumWorkers >= 1) =>
           (collected = Len(inputs) /\ retErr = "nil")

\* without cancellation the channel has been closed while the collector
\* still has results to receive from it
NoIncompleteWithoutCancelWitness ==
    /\ ~Done
    /\ resultsClosed
    /\ mainPc = "collect"
    /\ collected < Len(inputs)
    /\ Len(results) > 1

\* C28 - when the collector finds the results channel closed before it has
\* received len(inputs) results, Run returns the buffer as filled so far
\* together with a non-nil incomplete-results error.
IncompleteReturnsError ==
    [][(/\ mainPc = "collect" /\ MoreToCollect
        /\ results = <<>> /\ resultsClosed
        /\ Returned' /\ retErr' \notin Causes) =>
           (retOutputs' = outputs /\ retErr' # "nil" /\ Incomplete')]_vars

\* every goroutine started by Run has terminated
AllGoroutinesDone ==
    /\ dispPc = "done"
    /\ closerPc = "done"
    /\ \A w \in DOMAIN wpc : wpc[w] = "done"

\* C29 - no goroutine leak: with at least one worker and an fn that always
\* returns, the workers, the dispatcher and the closer all terminate
\* eventually under fair scheduling, whether the token never fires or
\* fires at any moment.
NoGoroutineLeak == <>AllGoroutinesDone

\* all goroutines have terminated after a cancellation that left inputs
\* undispatched and a result unpublished
NoGoroutineLeakWitness ==
    /\ AllGoroutinesDone
    /\ NumWorkers = 2
    /\ Done /\ ~firedBeforeRun
    /\ taskNext < Len(inputs)
    /\ Cardinality(fnReturned) > Len(results) + collected

\* C30 - zero workers: on an executor built with WithWorkers(0), a Run over
\* a non-empty inputs during which the token does not fire does not report
\* success: it does not return a nil error while output slots are unfilled.
ZeroWorkersNoSuccess ==
    (/\ opts = <<0>> /\ NumWorkers = 0
     /\ Len(inputs) > 0
     /\ Returned /\ ~doneAtReturn) =>
        ~(retErr = "nil" /\ filled # 0..(Len(inputs) - 1))

\* a job a create request may store
ValidJob(j) == j.ID > 0 /\ j.Resources.Cpu # "" /\ j.Resources.Memory # ""

\* C31 - job registry validity: every job stored in the collection, and
\* every job a handler is about to store, has ID > 0 and non-empty
\* resources.cpu and resources.memory; a create request that is rejected
\* at decoding or validation answers 400 and stores nothing.
JobsValid ==
    /\ [](/\ \A i \in 1..Len(jobs) : ValidJob(jobs[i])
          /\ \A h \in DOMAIN hnd : hnd[h].pc # "idle" => ValidJob(hnd[h].newJob))
    /\ [][(served' = served + 1 /\ hnd' = hnd) =>
              (jobs' = jobs /\ resp' = "StatusBadRequest")]_vars

\* of three create requests one has stored its job and the last one was
\* rejected
JobsValidWitness ==
    /\ served = MaxRequests
    /\ Len(jobs) = 1
    /\ resp = "StatusBadRequest"
    /\ \A h \in DOMAIN hnd : hnd[h].pc = "idle"

\* C32 - job registry frame: the collection changes only by a create that
\* answers 200, which appends exactly one job of status pending to the
\* collection as it was and leaves the stored jobs unchanged and in order;
\* list, get and rejected create requests leave it unchanged.
JobFrame ==
    [][/\ jobs' # jobs =>
              /\ resp' = "StatusOK"
              /\ Len(jobs') = Len(jobs) + 1
              /\ \A i \in 1..Len(jobs) : jobs'[i] = jobs[i]
              /\ jobs'[Len(jobs')].Status = StatusPending
       /\ (resp' # "StatusOK" /\ resp' # resp) => jobs' = jobs]_vars

(* ---- the context-free Run of src/unnamed/part_001, lines 143-192 ---- *)
\* tasks <- task{i, input} of the dispatcher meets for t := range tasks of
\* worker w, which goes on to out := fn(t.input)
LegacyHandOff(w) ==
    /\ dispPc = "feed"
    /\ taskNext < Len(inputs)
    /\ wpc[w] = "select"
    /\ wpc' = [wpc EXCEPT ![w] = "work"]
    /\ wtask' = [wtask EXCEPT ![w] = taskNext]
    /\ fnStarted' = fnStarted \cup {taskNext}
    /\ taskNext' = taskNext + 1
    /\ UNCHANGED <<inputVars, ctxErr, dispPc, tasksClosed, wout, wg,
                   fnReturned, results, closerVars, mainVars>>

\* results <- result{t.idx, out} of worker w meets for r := range results
\* of the caller: results is unbuffered; outputs = append(outputs, r.output)
LegacyDeliver(w) ==
    /\ wpc[w] = "send"
    /\ mainPc = "collect"
    /\ outputs' = Append(outputs, wout[w])
    /\ filled' = filled \cup {wtask[w]}
    /\ reordered' = (reordered \/ \E j \in filled : j > wtask[w])
    /\ collected' = collected + 1
    /\ wpc' = [wpc EXCEPT ![w] = "select"]
    /\ wtask' = [wtask EXCEPT ![w] = -1]
    /\ wout' = [wout EXCEPT ![w] = ZeroR]
    /\ UNCHANGED <<inputVars, ctxErr, dispVars, wg, fnStarted, fnReturned,
                   results, closerVars, mainPc, retOutputs, retErr,
                   doneAtReturn>>

\* the range over results ends on the closed channel: return outputs
LegacyReturn ==
    /\ mainPc = "collect"
    /\ resultsClosed
    /\ retOutputs' = outputs
    /\ mainPc' = "returned"
    /\ UNCHANGED <<inputVars, ctxErr, dispVars, workerVars, results,
                   closerVars, outputs, collected, retErr, doneAtReturn,
                   filled, reordered>>

\* the state after the goroutines of the context-free Run were started, on
\* an executor built by New(numWorkers) with numWorkers in 1..MaxWorkers:
\* var outputs []R is nil, and there is no ctx
LegacyInit ==
    /\ NumWorkers \in 1..MaxWorkers
    /\ numCPU = MaxWorkers
    /\ opts = <<NumWorkers>>
    /\ inputs \in InputSeqs
    /\ ctxErr = "nil"
    /\ firedBeforeRun = FALSE
    /\ prev = <<>>
    /\ other = <<>>
    /\ NoServer
    /\ dispPc = "feed"
    /\ taskNext = 0
    /\ tasksClosed = FALSE
    /\ wpc = [w \in Workers |-> "select"]
    /\ wtask = [w \in Workers |-> -1]
    /\ wout = [w \in Workers |-> ZeroR]
    /\ wg = NumWorkers
    /\ results = <<>>
    /\ resultsClosed = FALSE
    /\ closerPc = "wait"
    /\ outputs = <<>>
    /\ collected = 0
    /\ mainPc = "collect"
    /\ retOutputs = <<>>
    /\ retErr = "nil"
    /\ doneAtReturn = FALSE
    /\ filled = {}
    /\ reordered = FALSE
    /\ fnStarted = {}
    /\ fnReturned = {}

LegacyNext ==
    \/ \E w \in Workers : LegacyHandOff(w)
    \/ DispatcherClose
    \/ \E w \in Workers : WorkerTasksClosed(w)
    \/ \E w \in Workers : WorkerFnReturn(w)
    \/ \E w \in Workers : LegacyDeliver(w)
    \/ Closer
    \/ LegacyReturn

LegacySpec == LegacyInit /\ [][LegacyNext]_vars

\* C33 - the context-free Run returns the results in the order of inputs:
\* result k of the returned slice is fn(inputs[k]) for every k, for every
\* worker count W >= 1 and every interleaving.
LegacyOrder == Returned => retOutputs = Expected

====
